---- MODULE Spec2Model ----
(***************************************************************************)
(* Job submission and status tracking of the Trellis endpoints             *)
(* (backend/app/endpoints/trellis/router.py).                              *)
(*                                                                         *)
(* Each submission to POST /trellis/generate is a handler that touches the *)
(* shared status store at up to three points (processing, complete, error) *)
(* and the external engine once.  Handlers of different submissions may    *)
(* run in different worker processes against the same store, so a handler  *)
(* is a sequence of steps: the request reaching the handler, each status   *)
(* SET taking effect (or raising), the engine being invoked, the engine    *)
(* call returning, and the handler answering its caller.  Steps of other   *)
(* handlers come in between any two of them.                               *)
(* Submissions are numbered in the order in which they reach the handler.  *)
(* Time is counted in seconds.                                             *)
(***************************************************************************)
EXTENDS Integers, Sequences, FiniteSets, TLC

\* ---------------------------------------------------------------- bounds
NumSubmissions == 2
TickStep == 1800
MaxTime == 3600
\* Submissions to /trellis/generate that run beside the /generate-3d endpoint.
NumBeside == 1

\* ------------------------------------------------------ program constants
STATUS_KEY == "trellis_status:current"
StatusTTL == 3600

Subs == 1..NumSubmissions
Keys == {STATUS_KEY}

\* ------------------------------------------------------------ value space
Null == "null"
EmptyDict == [k \in {} |-> Null]
\* The keys of GenerationOutput (TrellisOutput).
GenerationOutputKeys ==
    {"model_file", "color_video", "gaussian_ply", "normal_video",
     "combined_video", "no_background_images"}
\* What the engine call may return: a full result, a mapping without keys,
\* and a result that carries a key beyond those of GenerationOutput.
Outputs ==
    { [model_file |-> "m.glb", color_video |-> "c.mp4",
       no_background_images |-> <<"nb.png">>, gaussian_ply |-> "g.ply"],
      EmptyDict,
      [model_file |-> "m.glb", request_id |-> "r-1"] }
Reasons == {"rate limited", "timeout"}

\* Parsed request bodies: the defaults of the request model, and a request
\* with every generate_* flag off and no field at its default.
DefaultRequest ==
    [images |-> <<"http://a/img.png">>, seed |-> 1337,
     randomize_seed |-> FALSE, texture_size |-> 2048,
     mesh_simplify |-> "0.96", generate_color |-> TRUE,
     generate_normal |-> FALSE, generate_model |-> TRUE,
     save_gaussian_ply |-> FALSE, return_no_background |-> TRUE,
     ss_sampling_steps |-> 26, ss_guidance_strength |-> "8.0",
     slat_sampling_steps |-> 26, slat_guidance_strength |-> "3.2"]
AllOffRequest ==
    [images |-> <<>>, seed |-> 7,
     randomize_seed |-> TRUE, texture_size |-> 512,
     mesh_simplify |-> "1.5", generate_color |-> FALSE,
     generate_normal |-> FALSE, generate_model |-> FALSE,
     save_gaussian_ply |-> TRUE, return_no_background |-> FALSE,
     ss_sampling_steps |-> 12, ss_guidance_strength |-> "7.5",
     slat_sampling_steps |-> 30, slat_guidance_strength |-> "3.0"]
\* The fields of Generate3DRequest / TrellisRequest.
RequestFields == DOMAIN DefaultRequest
Requests == {DefaultRequest, AllOffRequest}

\* Python's None where a mapping is expected.
PyNone == [none |-> TRUE]
NoOutput == PyNone
NoRequest == PyNone
NoArgs == PyNone
NoExc == [type |-> "none", msg |-> ""]
NoResp == [code |-> 0]
NoEntry == [absent |-> TRUE]

\* dict.get(key, default)
DictGet(d, k, default) == IF k \in DOMAIN d THEN d[k] ELSE default

\* An exception raised by the engine call, str(e) = msg.
EngineError(r) == [type |-> "engine", msg |-> r]
\* An exception raised by the store client when the store is unreachable.
StoreError == [type |-> "store", msg |-> "store unavailable"]

\* --------------------------------------------------------------- the store
\* redis_service.set_json(key, payload, ex=ex) at time t: SET key value EX ex
set_json(st, key, payload, ex, t) ==
    [st EXCEPT ![key] = [rec |-> payload, exp |-> t + ex]]

\* A key is readable until its expiry time is reached.
Live(st, key, t) == st[key] # NoEntry /\ t < st[key].exp

\* redis_service.get_json(key) at time t: the stored value, or None
get_json(st, key, t) == IF Live(st, key, t) THEN st[key].rec ELSE PyNone

\* ------------------------------------------------------------- the router
\* Fault variant of _set_status: an existing key keeps its old expiry.
set_status_keepttl(st, payload, t) ==
    IF st[STATUS_KEY] = NoEntry
    THEN set_json(st, STATUS_KEY, payload, StatusTTL, t)
    ELSE [st EXCEPT ![STATUS_KEY].rec = payload]

\* Fault variant of _set_status: the payload is merged into the old record.
set_status_merge(st, payload, t) ==
    LET old == get_json(st, STATUS_KEY, t)
        merged == IF old = PyNone THEN payload ELSE payload @@ old
    IN  set_json(st, STATUS_KEY, merged, StatusTTL, t)

\* Fault variant of _set_status: a live record is not overwritten (SET NX).
set_status_nx(st, payload, t) ==
    IF Live(st, STATUS_KEY, t)
    THEN st
    ELSE set_json(st, STATUS_KEY, payload, StatusTTL, t)

\* Fault variant of _set_status: the record is kept for half an hour only.
set_status_shortttl(st, payload, t) ==
    set_json(st, STATUS_KEY, payload, 1800, t)

\* _set_status(payload)
set_status(st, payload, t) == set_json(st, STATUS_KEY, payload, StatusTTL, t)

\* Fault variant of the processing record: progress starts at 0.
ProcessingRecord_zero ==
    [status |-> "processing", progress |-> 0,
     message |-> "Submitting job to Trellis..."]

\* The message ends in the one-character ellipsis U+2026, written "..." here.
ProcessingRecord ==
    [status |-> "processing", progress |-> 5,
     message |-> "Submitting job to Trellis..."]

CompleteRecord(output) ==
    [status |-> "complete", progress |-> 100,
     message |-> "3D model generated successfully!",
     model_file |-> DictGet(output, "model_file", Null),
     color_video |-> DictGet(output, "color_video", Null),
     no_background_images |-> DictGet(output, "no_background_images", <<>>)]

\* Fault variant of the error record: progress is left where it was.
ErrorRecord_keepprogress(e) ==
    [status |-> "error", progress |-> 5,
     message |-> "Generation failed: " \o e.msg]

\* Fault variant of the error record: the reason is left out of the message.
ErrorRecord_noreason(e) ==
    [status |-> "error", progress |-> 0, message |-> "Generation failed"]

ErrorRecord(e) ==
    [status |-> "error", progress |-> 0,
     message |-> "Generation failed: " \o e.msg]

IdleDefault ==
    [status |-> "idle", progress |-> 0, message |-> "No generation started"]

\* response_model=TrellisOutput: the returned mapping as the framework
\* serialises it for the caller, with the keys of GenerationOutput that the
\* mapping carries and no other key.
TrellisOutput(output) ==
    [k \in DOMAIN output \cap GenerationOutputKeys |-> output[k]]

\* An HTTP 200 response with the given body.
OkResponse(body) == [code |-> 200, body |-> body]
\* raise HTTPException(status_code=500, detail=...)
HttpError(e) ==
    [code |-> 500, detail |-> "Failed to generate 3D asset: " \o e.msg]
\* An exception that leaves the handler uncaught: the framework's bare 500.
Unhandled(e) == [code |-> 500, error |-> e.type]

\* Fault variant of the engine call's arguments: the two guidance strengths
\* are swapped and a request with no output selected is given a model.
engine_kwargs_coerced(request) ==
    [images |-> request.images,
     seed |-> request.seed,
     randomize_seed |-> request.randomize_seed,
     texture_size |-> request.texture_size,
     mesh_simplify |-> request.mesh_simplify,
     generate_color |-> request.generate_color,
     generate_normal |-> request.generate_normal,
     generate_model |-> (request.generate_model
                           \/ ~(request.generate_color
                                  \/ request.generate_normal)),
     save_gaussian_ply |-> request.save_gaussian_ply,
     return_no_background |-> request.return_no_background,
     ss_sampling_steps |-> request.ss_sampling_steps,
     ss_guidance_strength |-> request.slat_guidance_strength,
     slat_sampling_steps |-> request.slat_sampling_steps,
     slat_guidance_strength |-> request.ss_guidance_strength]

\* The keyword arguments of trellis_service.generate_3d_asset(...) in
\* generate_3d_asset.
engine_kwargs(request) ==
    [images |-> request.images,
     seed |-> request.seed,
     randomize_seed |-> request.randomize_seed,
     texture_size |-> request.texture_size,
     mesh_simplify |-> request.mesh_simplify,
     generate_color |-> request.generate_color,
     generate_normal |-> request.generate_normal,
     generate_model |-> request.generate_model,
     save_gaussian_ply |-> request.save_gaussian_ply,
     return_no_background |-> request.return_no_background,
     ss_sampling_steps |-> request.ss_sampling_steps,
     ss_guidance_strength |-> request.ss_guidance_strength,
     slat_sampling_steps |-> request.slat_sampling_steps,
     slat_guidance_strength |-> request.slat_guidance_strength]

\* The keyword arguments of trellis_service.generate_3d_asset(...) in
\* main.py's generate_3d.
generate_3d_kwargs(request) ==
    [images |-> request.images,
     seed |-> request.seed,
     randomize_seed |-> request.randomize_seed,
     texture_size |-> request.texture_size,
     mesh_simplify |-> request.mesh_simplify,
     generate_color |-> request.generate_color,
     generate_normal |-> request.generate_normal,
     generate_model |-> request.generate_model,
     save_gaussian_ply |-> request.save_gaussian_ply,
     return_no_background |-> request.return_no_background,
     ss_sampling_steps |-> request.ss_sampling_steps,
     ss_guidance_strength |-> request.ss_guidance_strength,
     slat_sampling_steps |-> request.slat_sampling_steps,
     slat_guidance_strength |-> request.slat_guidance_strength]

\* main.py: raise HTTPException(status_code=500, detail=str(e))
MainHttpError(e) == [code |-> 500, detail |-> e.msg]

\* not v, for v a mapping or None
Falsy(v) == v = PyNone \/ v = EmptyDict

\* Fault variant of get_generation_status: no idle default.
get_generation_status_nodefault(st, t) == get_json(st, STATUS_KEY, t)

\* get_generation_status() with the store reachable
get_generation_status(st, t) ==
    LET status == get_json(st, STATUS_KEY, t)
    IN  IF Falsy(status) THEN IdleDefault ELSE status

VARIABLES
    pc,          \* pc[i]: where submission i's handler stands
    req,         \* req[i]: the parsed request, while the handler uses it
    engineArgs,  \* engineArgs[i]: the arguments of the engine call in flight
    out,         \* out[i]: the engine's output, until the handler leaves
    exc,         \* exc[i]: the exception caught, until the handler leaves
    resp,        \* resp[i]: what the caller of submission i received
    engineCalls, \* engineCalls[i]: engine invocations made for submission i
    store,       \* the status store: key -> entry
    storeUp,     \* whether the store is reachable
    now,         \* the clock, in seconds
    statusResp,  \* the response of GET /trellis/status when the last step was one
    mpc,         \* main.py: where the /generate-3d handler stands
    mreq,        \* main.py: the parsed request
    margs,       \* main.py: the arguments of the engine call in flight
    mresp,       \* main.py: what the caller of /generate-3d received
    writer,      \* history: the submission whose write the slot holds (0: none)
    lastPayload, \* history: the payload of the last successful write
    lastWriteAt, \* history: the time of the last successful write (-1: none)
    procWritten, \* history: procWritten[i]: i wrote its processing record
    writeFailed, \* history: writeFailed[i]: a status write of i has raised
    overlapped,  \* history: a submission arrived while another was running
    events       \* history: events[i]: what submission i's handler has done

handlerVars == <<pc, req, engineArgs, out, exc, resp, engineCalls,
                 procWritten, writeFailed, overlapped, events>>
storeVars == <<store, writer, lastPayload, lastWriteAt>>
mainVars == <<mpc, mreq, margs, mresp>>

vars == <<handlerVars, storeVars, mainVars, storeUp, now, statusResp>>

Init ==
    /\ pc = [i \in Subs |-> "idle"]
    /\ req = [i \in Subs |-> NoRequest]
    /\ engineArgs = [i \in Subs |-> NoArgs]
    /\ out = [i \in Subs |-> NoOutput]
    /\ exc = [i \in Subs |-> NoExc]
    /\ resp = [i \in Subs |-> NoResp]
    /\ engineCalls = [i \in Subs |-> 0]
    /\ store = [k \in Keys |-> NoEntry]
    /\ storeUp = TRUE
    /\ now = 0
    /\ statusResp = NoResp
    /\ mpc = "idle"
    /\ mreq = NoRequest
    /\ margs = NoArgs
    /\ mresp = NoResp
    /\ writer = 0
    /\ lastPayload = NoEntry
    /\ lastWriteAt = -1
    /\ procWritten = [i \in Subs |-> FALSE]
    /\ writeFailed = [i \in Subs |-> FALSE]
    /\ overlapped = FALSE
    /\ events = [i \in Subs |-> <<>>]

\* A successful status write by submission i, with its history.
Write(i, payload) ==
    /\ store' = set_status(store, payload, now)
    /\ writer' = i
    /\ lastPayload' = payload
    /\ lastWriteAt' = now

NoWrite == UNCHANGED storeVars

\* A status write by submission i raises: the store is left as it was.
WriteRaises(i) ==
    /\ NoWrite
    /\ writeFailed' = [writeFailed EXCEPT ![i] = TRUE]

\* Submission i's handler has done evs, in this order.
Log(i, evs) == events' = [events EXCEPT ![i] = @ \o evs]

\* The submissions whose handler is running.
InFlight == {j \in Subs : pc[j] \notin {"idle", "done"}}

\* router.py 32, 44-48: the request reaches the handler.
Arrive(i) ==
    /\ pc[i] = "idle"
    /\ \A j \in Subs : j < i => pc[j] # "idle"
    /\ \E r \in Requests : req' = [req EXCEPT ![i] = r]
    /\ pc' = [pc EXCEPT ![i] = "arrived"]
    /\ overlapped' = (overlapped \/ InFlight # {})
    /\ NoWrite
    /\ statusResp' = NoResp
    /\ UNCHANGED <<engineArgs, out, exc, resp, engineCalls, procWritten,
                   writeFailed, events, storeUp, now, mainVars>>

\* Fault variant of the first status write: it is left out.
WriteProcessing_skipped(i) ==
    /\ pc[i] = "arrived"
    /\ pc' = [pc EXCEPT ![i] = "written"]
    /\ NoWrite
    /\ statusResp' = NoResp
    /\ UNCHANGED <<req, engineArgs, out, exc, resp, engineCalls, procWritten,
                   writeFailed, overlapped, events, storeUp, now, mainVars>>

\* router.py 50-56: the processing record's SET takes effect, or raises into
\* the except clause.
WriteProcessing(i) ==
    /\ pc[i] = "arrived"
    /\ IF storeUp
       THEN /\ Write(i, ProcessingRecord)
            /\ writeFailed' = writeFailed
            /\ procWritten' = [procWritten EXCEPT ![i] = TRUE]
            /\ Log(i, <<"write_processing">>)
            /\ pc' = [pc EXCEPT ![i] = "written"]
            /\ UNCHANGED <<req, exc>>
       ELSE /\ WriteRaises(i)
            /\ exc' = [exc EXCEPT ![i] = StoreError]
            /\ req' = [req EXCEPT ![i] = NoRequest]
            /\ pc' = [pc EXCEPT ![i] = "failed"]
            /\ UNCHANGED <<procWritten, events>>
    /\ statusResp' = NoResp
    /\ UNCHANGED <<engineArgs, out, resp, engineCalls, overlapped, storeUp,
                   now, mainVars>>

\* router.py 58-73: the engine is invoked with the request's fields.
CallEngine(i) ==
    /\ pc[i] = "written"
    /\ engineArgs' = [engineArgs EXCEPT ![i] = engine_kwargs(req[i])]
    /\ engineCalls' = [engineCalls EXCEPT ![i] = @ + 1]
    /\ Log(i, <<"engine_call">>)
    /\ pc' = [pc EXCEPT ![i] = "engine"]
    /\ NoWrite
    /\ statusResp' = NoResp
    /\ UNCHANGED <<req, out, exc, resp, procWritten, writeFailed, overlapped,
                   storeUp, now, mainVars>>

\* router.py 58-73: the engine call returns an output or raises.
EngineReturn(i) ==
    /\ pc[i] = "engine"
    /\ \/ \E o \in Outputs :
            /\ out' = [out EXCEPT ![i] = o]
            /\ pc' = [pc EXCEPT ![i] = "returned"]
            /\ exc' = exc
       \/ \E r \in Reasons :
            /\ exc' = [exc EXCEPT ![i] = EngineError(r)]
            /\ pc' = [pc EXCEPT ![i] = "failed"]
            /\ out' = out
    /\ req' = [req EXCEPT ![i] = NoRequest]
    /\ engineArgs' = [engineArgs EXCEPT ![i] = NoArgs]
    /\ NoWrite
    /\ statusResp' = NoResp
    /\ UNCHANGED <<resp, engineCalls, procWritten, writeFailed, overlapped,
                   events, storeUp, now, mainVars>>

\* router.py 74-84: the complete record's SET takes effect, or raises into
\* the except clause.
WriteComplete(i) ==
    /\ pc[i] = "returned"
    /\ IF storeUp
       THEN /\ Write(i, CompleteRecord(out[i]))
            /\ writeFailed' = writeFailed
            /\ Log(i, <<"write_complete">>)
            /\ pc' = [pc EXCEPT ![i] = "completed"]
            /\ exc' = exc
       ELSE /\ WriteRaises(i)
            /\ exc' = [exc EXCEPT ![i] = StoreError]
            /\ pc' = [pc EXCEPT ![i] = "failed"]
            /\ events' = events
    /\ statusResp' = NoResp
    /\ UNCHANGED <<req, engineArgs, out, resp, engineCalls, procWritten,
                   overlapped, storeUp, now, mainVars>>

\* Fault variant of the handler's return: only part of the output is returned.
Return_partial(i) ==
    /\ pc[i] = "completed"
    /\ resp' = [resp EXCEPT ![i] =
                  OkResponse(TrellisOutput(
                    [k \in DOMAIN out[i] \ {"gaussian_ply"} |-> out[i][k]]))]
    /\ Log(i, <<"response">>)
    /\ pc' = [pc EXCEPT ![i] = "done"]
    /\ out' = [out EXCEPT ![i] = NoOutput]
    /\ exc' = [exc EXCEPT ![i] = NoExc]
    /\ NoWrite
    /\ statusResp' = NoResp
    /\ UNCHANGED <<req, engineArgs, engineCalls, procWritten, writeFailed,
                   overlapped, storeUp, now, mainVars>>

\* router.py 31, 85: the handler returns the engine's output, which reaches
\* the caller through the route's response model.
Return(i) ==
    /\ pc[i] = "completed"
    /\ resp' = [resp EXCEPT ![i] = OkResponse(TrellisOutput(out[i]))]
    /\ Log(i, <<"response">>)
    /\ pc' = [pc EXCEPT ![i] = "done"]
    /\ out' = [out EXCEPT ![i] = NoOutput]
    /\ exc' = [exc EXCEPT ![i] = NoExc]
    /\ NoWrite
    /\ statusResp' = NoResp
    /\ UNCHANGED <<req, engineArgs, engineCalls, procWritten, writeFailed,
                   overlapped, storeUp, now, mainVars>>

\* Fault variant of the except clause: a failed engine call is retried once.
WriteError_retry(i) ==
    /\ pc[i] = "failed"
    /\ IF exc[i].type = "engine" /\ engineCalls[i] < 2
       THEN /\ engineCalls' = [engineCalls EXCEPT ![i] = @ + 1]
            /\ pc' = [pc EXCEPT ![i] = "engine"]
            /\ Log(i, <<"engine_call">>)
            /\ NoWrite
            /\ writeFailed' = writeFailed
       ELSE /\ IF storeUp
               THEN /\ Write(i, ErrorRecord(exc[i]))
                    /\ writeFailed' = writeFailed
                    /\ Log(i, <<"write_error">>)
                    /\ pc' = [pc EXCEPT ![i] = "errored"]
               ELSE /\ WriteRaises(i)
                    /\ events' = events
                    /\ pc' = [pc EXCEPT ![i] = "escaped"]
            /\ engineCalls' = engineCalls
    /\ statusResp' = NoResp
    /\ UNCHANGED <<req, engineArgs, out, exc, resp, procWritten, overlapped,
                   storeUp, now, mainVars>>

\* Fault variant of the except clause: the error record is not written.
WriteError_nowrite(i) ==
    /\ pc[i] = "failed"
    /\ NoWrite
    /\ pc' = [pc EXCEPT ![i] = IF storeUp THEN "errored" ELSE "escaped"]
    /\ statusResp' = NoResp
    /\ UNCHANGED <<req, engineArgs, out, exc, resp, engineCalls, procWritten,
                   writeFailed, overlapped, events, storeUp, now, mainVars>>

\* router.py 86-95: in the except clause the error record's SET takes
\* effect, or raises out of the handler.
WriteError(i) ==
    /\ pc[i] = "failed"
    /\ IF storeUp
       THEN /\ Write(i, ErrorRecord(exc[i]))
            /\ writeFailed' = writeFailed
            /\ Log(i, <<"write_error">>)
            /\ pc' = [pc EXCEPT ![i] = "errored"]
       ELSE /\ WriteRaises(i)
            /\ events' = events
            /\ pc' = [pc EXCEPT ![i] = "escaped"]
    /\ statusResp' = NoResp
    /\ UNCHANGED <<req, engineArgs, out, exc, resp, engineCalls, procWritten,
                   overlapped, storeUp, now, mainVars>>

\* router.py 96: the handler raises the HTTP 500 to its caller.
Raise(i) ==
    /\ pc[i] = "errored"
    /\ resp' = [resp EXCEPT ![i] = HttpError(exc[i])]
    /\ Log(i, <<"response">>)
    /\ pc' = [pc EXCEPT ![i] = "done"]
    /\ out' = [out EXCEPT ![i] = NoOutput]
    /\ exc' = [exc EXCEPT ![i] = NoExc]
    /\ NoWrite
    /\ statusResp' = NoResp
    /\ UNCHANGED <<req, engineArgs, engineCalls, procWritten, writeFailed,
                   overlapped, storeUp, now, mainVars>>

\* router.py 89-95, 110-111: the exception of a failed error write leaves
\* the handler, and the caller gets the framework's answer to it.
Escape(i) ==
    /\ pc[i] = "escaped"
    /\ resp' = [resp EXCEPT ![i] = Unhandled(StoreError)]
    /\ Log(i, <<"response">>)
    /\ pc' = [pc EXCEPT ![i] = "done"]
    /\ out' = [out EXCEPT ![i] = NoOutput]
    /\ exc' = [exc EXCEPT ![i] = NoExc]
    /\ NoWrite
    /\ statusResp' = NoResp
    /\ UNCHANGED <<req, engineArgs, engineCalls, procWritten, writeFailed,
                   overlapped, storeUp, now, mainVars>>

\* Fault variant of GET /trellis/status: a failed read answers idle.
GetStatus_swallow ==
    /\ statusResp' = IF storeUp
                     THEN OkResponse(get_generation_status(store, now))
                     ELSE OkResponse(IdleDefault)
    /\ UNCHANGED <<handlerVars, storeVars, mainVars, storeUp, now>>

\* Fault variant of GET /trellis/status: a read renews the record's expiry.
GetStatus_touch ==
    /\ statusResp' = IF storeUp
                     THEN OkResponse(get_generation_status(store, now))
                     ELSE Unhandled(StoreError)
    /\ store' = IF storeUp /\ Live(store, STATUS_KEY, now)
                THEN [store EXCEPT ![STATUS_KEY].exp = now + StatusTTL]
                ELSE store
    /\ UNCHANGED <<handlerVars, writer, lastPayload, lastWriteAt, mainVars,
                   storeUp, now>>

\* router.py 99-107: GET /trellis/status; a failing read raises out of it.
GetStatus ==
    /\ statusResp' = IF storeUp
                     THEN OkResponse(get_generation_status(store, now))
                     ELSE Unhandled(StoreError)
    /\ UNCHANGED <<handlerVars, storeVars, mainVars, storeUp, now>>

\* Fault variant of main.py's handler start: it marks the status slot.
Generate3dBegin_marks ==
    /\ mpc = "idle"
    /\ \E r \in Requests :
         /\ mreq' = r
         /\ margs' = generate_3d_kwargs(r)
    /\ mpc' = "engine"
    /\ store' = IF storeUp
                THEN set_status(store, ProcessingRecord, now)
                ELSE store
    /\ statusResp' = NoResp
    /\ UNCHANGED <<handlerVars, writer, lastPayload, lastWriteAt, mresp,
                   storeUp, now>>

\* main.py 32-50: POST /generate-3d arrives and the engine is invoked.
Generate3dBegin ==
    /\ mpc = "idle"
    /\ \E r \in Requests :
         /\ mreq' = r
         /\ margs' = generate_3d_kwargs(r)
    /\ mpc' = "engine"
    /\ statusResp' = NoResp
    /\ UNCHANGED <<handlerVars, storeVars, mresp, storeUp, now>>

\* main.py 35-53: the engine call returns an output, which is returned, or
\* raises, which becomes an HTTP 500 with detail str(e).
Generate3dReturn ==
    /\ mpc = "engine"
    /\ \/ \E o \in Outputs : mresp' = OkResponse(o)
       \/ \E r \in Reasons : mresp' = MainHttpError(EngineError(r))
    /\ mpc' = "done"
    /\ mreq' = NoRequest
    /\ margs' = NoArgs
    /\ statusResp' = NoResp
    /\ UNCHANGED <<handlerVars, storeVars, storeUp, now>>

\* Time passes.
Tick ==
    /\ now + TickStep <= MaxTime
    /\ now' = now + TickStep
    /\ statusResp' = NoResp
    /\ UNCHANGED <<handlerVars, storeVars, mainVars, storeUp>>

\* The store becomes unreachable.
StoreDown ==
    /\ storeUp
    /\ storeUp' = FALSE
    /\ statusResp' = NoResp
    /\ UNCHANGED <<handlerVars, storeVars, mainVars, now>>

\* The store becomes reachable again.
StoreRecover ==
    /\ ~storeUp
    /\ storeUp' = TRUE
    /\ statusResp' = NoResp
    /\ UNCHANGED <<handlerVars, storeVars, mainVars, now>>

\* A step of submission i's handler for POST /trellis/generate.
Handler(i) ==
    \/ Arrive(i)
    \/ WriteProcessing(i)
    \/ CallEngine(i)
    \/ EngineReturn(i)
    \/ WriteComplete(i)
    \/ Return(i)
    \/ WriteError(i)
    \/ Raise(i)
    \/ Escape(i)

\* The primary service: the router's two endpoints and their environment.
Next ==
    \/ \E i \in Subs : Handler(i)
    \/ GetStatus
    \/ Tick
    \/ StoreDown
    \/ StoreRecover

Spec == Init /\ [][Next]_vars

\* The secondary service (main.py) beside submissions to the primary one.
Beside == 1..NumBeside

NextMain ==
    \/ Generate3dBegin
    \/ Generate3dReturn
    \/ \E i \in Beside : Handler(i)
    \/ GetStatus
    \/ Tick
    \/ StoreDown
    \/ StoreRecover

SpecMain == Init /\ [][NextMain]_vars

\* ------------------------------------------------------------------ claims
Slot == store[STATUS_KEY]
SlotLive == Live(store, STATUS_KEY, now)

C2_SlotErrorWhenHandlerEnds ==
    [][\A i \in Subs :
         (pc[i] = "errored" /\ exc[i].type = "engine" /\ pc'[i] = "done") =>
           LET R == exc[i].msg
           IN  /\ store'[STATUS_KEY].rec =
                    [status |-> "error", progress |-> 0,
                     message |-> "Generation failed: " \o R]
               /\ resp'[i] =
                    [code |-> 500,
                     detail |-> "Failed to generate 3D asset: " \o R]]_vars

\* C2 (amended): when the engine call has failed with reason R and the store
\* is available, the handler's error write leaves the slot holding
\* status=error, progress=0, message="Generation failed: R"; the caller then
\* receives an HTTP 500 whose detail is "Failed to generate 3D asset: R" and
\* nothing else, and at that moment the slot still holds that record unless
\* another submission has written it in between.
C2_FailureRecordsErrorAndReturns500 ==
    [][\A i \in Subs :
         LET R == exc[i].msg
             recorded ==
               store'[STATUS_KEY].rec =
                 [status |-> "error", progress |-> 0,
                  message |-> "Generation failed: " \o R]
         IN  /\ (pc[i] = "failed" /\ exc[i].type = "engine" /\ storeUp
                   /\ pc'[i] # "failed") =>
                  /\ pc'[i] = "errored"
                  /\ Live(store', STATUS_KEY, now')
                  /\ recorded
             /\ (pc[i] = "errored" /\ exc[i].type = "engine"
                   /\ pc'[i] # "errored") =>
                  /\ pc'[i] = "done"
                  /\ resp'[i] =
                       [code |-> 500,
                        detail |-> "Failed to generate 3D asset: " \o R]
                  /\ writer = i => recorded]_vars

\* A submission whose engine call failed with "rate limited" has answered,
\* and the slot holds its error record.
C2_Witness ==
    \E i \in Subs :
        /\ pc[i] = "done"
        /\ resp[i] = [code |-> 500,
                      detail |-> "Failed to generate 3D asset: rate limited"]
        /\ writer = i
        /\ SlotLive
        /\ Slot.rec = [status |-> "error", progress |-> 0,
                       message |-> "Generation failed: rate limited"]

\* C3: whenever the engine call succeeded with output O, the caller receives
\* O (as the response model passes it on) with HTTP 200, also when a status
\* write failed after it.
C3_WriteFailureAfterSuccessStillReturnsOutput ==
    [][\A i \in Subs :
         (out[i] # NoOutput /\ pc[i] # "done" /\ pc'[i] = "done") =>
            /\ resp'[i].code = 200
            /\ "body" \in DOMAIN resp'[i]
            /\ \A k \in DOMAIN out[i] \cap GenerationOutputKeys :
                 /\ k \in DOMAIN resp'[i].body
                 /\ resp'[i].body[k] = out[i][k]]_vars

\* C4: a failed processing write does not abort the submission: the engine is
\* still invoked, and the caller receives the engine's output or the
\* engine's failure.
C4_FailedProcessingWriteStillInvokesEngine ==
    \A i \in Subs :
        (pc[i] \notin {"idle", "arrived"} /\ ~procWritten[i]) =>
            /\ engineCalls[i] = 1
            /\ pc[i] = "done" =>
                 \/ \E o \in Outputs :
                      resp[i] = [code |-> 200, body |-> TrellisOutput(o)]
                 \/ \E r \in Reasons :
                      resp[i] = [code |-> 500,
                                 detail |-> "Failed to generate 3D asset: " \o r]

\* C5: with the store available, GET /trellis/status returns exactly the idle
\* default when the slot was never written or 3600 seconds have passed since
\* the last write, and the last written record otherwise.
C5_StatusReadsIdleOrStoredRecord ==
    (statusResp # NoResp /\ storeUp) =>
        statusResp =
            [code |-> 200,
             body |-> IF lastWriteAt = -1 \/ now - lastWriteAt >= 3600
                      THEN [status |-> "idle", progress |-> 0,
                            message |-> "No generation started"]
                      ELSE lastPayload]

\* A read returned the idle default after a written record had expired.
C5_Witness ==
    /\ statusResp # NoResp
    /\ storeUp
    /\ lastWriteAt >= 0
    /\ now - lastWriteAt >= 3600
    /\ statusResp.body = IdleDefault

\* C6: the slot holds exactly the fields and values of the last written
\* payload: an error record written after a complete record carries no
\* model_file, color_video or no_background_images, and a complete record
\* written after a processing record has progress 100 and a model_file.
C6_WriteReplacesWholesale ==
    Slot # NoEntry =>
        /\ Slot.rec = lastPayload
        /\ Slot.rec.status \in {"processing", "error"} =>
             DOMAIN Slot.rec = {"status", "progress", "message"}
        /\ Slot.rec.status = "complete" =>
             /\ Slot.rec.progress = 100
             /\ "model_file" \in DOMAIN Slot.rec

\* An error record was written over the complete record of another
\* submission.
C6_Witness ==
    /\ Slot # NoEntry
    /\ Slot.rec.status = "error"
    /\ \E j \in Subs : j # writer /\ pc[j] = "done" /\ resp[j].code = 200

\* C7 (as claimed): once a later submission has written its processing
\* record, the slot never holds a record written by an earlier submission.
C7_SlotBelongsToLatestSubmission ==
    \A e, l \in Subs : (e < l /\ procWritten[l]) => writer # e

\* C7 (amended): as long as no submission has arrived while another was
\* running, the slot belongs to the latest submission once it has written
\* its processing record: no earlier submission is the slot's last writer,
\* and until the latest submission's engine call returns the slot's record
\* is its processing record, not a record left by an earlier submission.
C7_SlotBelongsToLatestWhenNotOverlapping ==
    ~overlapped =>
        \A e, l \in Subs :
            (e < l /\ procWritten[l]) =>
                /\ writer # e
                /\ pc[l] \in {"written", "engine"} =>
                     Slot.rec = [status |-> "processing", progress |-> 5,
                                 message |-> "Submitting job to Trellis..."]

\* A submission that arrived after the previous one had returned its output
\* has written its processing record over the complete record.
C7_Witness ==
    \E e, l \in Subs :
        /\ e < l
        /\ ~overlapped
        /\ resp[e].code = 200
        /\ pc[l] = "engine"
        /\ writer = l
        /\ Slot.rec.status = "processing"

\* C8: every status write sets the slot's expiry to 3600 seconds after that
\* write: the record reads back until 3600 seconds after the most recent
\* write and reads as idle from then on, however old earlier writes are.
C8_WriteResetsExpiry ==
    /\ lastWriteAt >= 0 => (Slot # NoEntry /\ Slot.exp = lastWriteAt + 3600)
    /\ (get_generation_status(store, now) =
          [status |-> "idle", progress |-> 0,
           message |-> "No generation started"])
         <=> (lastWriteAt < 0 \/ now >= lastWriteAt + 3600)

\* A submission rewrote the slot some time after its processing write, and
\* the record is still readable after the clock has passed 3600.
C8_Witness ==
    /\ writer \in Subs
    /\ procWritten[writer]
    /\ Slot.rec.status \in {"complete", "error"}
    /\ lastWriteAt > 0
    /\ now >= 3600
    /\ now > lastWriteAt
    /\ SlotLive

\* C9: a submission invokes the engine at most once; once the engine call
\* has failed the handler makes no further call and only reports the
\* failure.
C9_EngineInvokedAtMostOnce ==
    \A i \in Subs :
        /\ engineCalls[i] <= 1
        /\ exc[i].type = "engine" =>
             (engineCalls[i] = 1 /\ pc[i] \in {"failed", "errored", "escaped"})
        /\ (pc[i] = "done" /\ engineCalls[i] = 1) => resp[i].code \in {200, 500}

\* A submission whose engine call failed has answered with the error, after
\* one engine call.
C9_Witness ==
    \E i \in Subs :
        /\ pc[i] = "done"
        /\ engineCalls[i] = 1
        /\ resp[i] = [code |-> 500,
                      detail |-> "Failed to generate 3D asset: timeout"]

\* C10: a GET /trellis/status whose store read raises answers with an error,
\* not with the idle default; the idle default is returned only when the slot
\* is absent or expired.
C10_FailedReadSurfacesError ==
    statusResp # NoResp =>
        /\ ~storeUp => (statusResp.code = 500 /\ "body" \notin DOMAIN statusResp)
        /\ (statusResp.code = 200 /\ statusResp.body = IdleDefault) =>
             (storeUp /\ ~SlotLive)

\* A read failed while the slot held a live record.
C10_Witness ==
    /\ statusResp # NoResp
    /\ ~storeUp
    /\ SlotLive
    /\ statusResp.code = 500

\* C11: while an engine call is in flight, each of the fourteen fields it was
\* given equals the request's, for /trellis/generate and for /generate-3d;
\* a request with every generate_* flag false is forwarded like any other.
C11_RequestForwardedUnmodified ==
    /\ \A i \in Subs :
         pc[i] = "engine" =>
           /\ Cardinality(RequestFields) = 14
           /\ DOMAIN engineArgs[i] = RequestFields
           /\ \A f \in RequestFields : engineArgs[i][f] = req[i][f]
    /\ mpc = "engine" =>
         /\ DOMAIN margs = RequestFields
         /\ \A f \in RequestFields : margs[f] = mreq[f]

\* Both endpoints have an engine call in flight for a request with every
\* generate_* flag false.
C11_Witness ==
    /\ \E i \in Subs :
         /\ pc[i] = "engine"
         /\ ~req[i].generate_color
         /\ ~req[i].generate_normal
         /\ ~req[i].generate_model
         /\ ~engineArgs[i].generate_model
    /\ mpc = "engine"
    /\ ~mreq.generate_color /\ ~mreq.generate_normal /\ ~mreq.generate_model
    /\ ~margs.generate_model

\* No status write of submission i has failed.
StoreHeldFor(i) == ~writeFailed[i]

IsPrefix(s, t) ==
    Len(s) <= Len(t) /\ \A k \in 1..Len(s) : s[k] = t[k]

OkTrace == <<"write_processing", "engine_call", "write_complete", "response">>
ErrTrace == <<"write_processing", "engine_call", "write_error", "response">>

\* C12: with the store available a submission's events come in the order
\* processing write, engine invocation, one terminal write (complete or
\* error), response; and no submission writes a processing record after it
\* wrote a complete or error record.
C12_EventsInOrder ==
    \A i \in Subs :
        /\ StoreHeldFor(i) =>
             /\ IsPrefix(events[i], OkTrace) \/ IsPrefix(events[i], ErrTrace)
             /\ pc[i] = "done" => events[i] \in {OkTrace, ErrTrace}
        /\ \A p, q \in DOMAIN events[i] :
             (p < q /\ events[i][p] \in {"write_complete", "write_error"})
                => events[i][q] # "write_processing"

\* A submission whose engine call failed has gone through all four events.
C12_Witness ==
    \E i \in Subs :
        /\ pc[i] = "done"
        /\ StoreHeldFor(i)
        /\ events[i] = ErrTrace

\* C13: with the store available, once all concurrent submissions have
\* returned the slot holds the terminal record of the one that wrote last,
\* whichever of them arrived first.
C13_LastWriterWins ==
    (\A i \in Subs : pc[i] = "done" /\ StoreHeldFor(i)) =>
        /\ writer \in Subs
        /\ \/ /\ resp[writer].code = 200
              /\ Slot.rec = CompleteRecord(resp[writer].body)
           \/ \E r \in Reasons :
                /\ resp[writer] = HttpError(EngineError(r))
                /\ Slot.rec = ErrorRecord(EngineError(r))

\* All submissions have returned; the second arrived while the first was
\* running and wrote its processing record, and the slot holds the complete
\* record of the first.
C13_Witness ==
    /\ \A i \in Subs : pc[i] = "done" /\ StoreHeldFor(i)
    /\ overlapped
    /\ procWritten[2]
    /\ writer = 1
    /\ Slot.rec.status = "complete"

\* C14: when the engine call failed with reason R the caller receives the
\* HTTP 500 with detail "Failed to generate 3D asset: R", also when the error
\* status write fails.
C14_ErrorWriteFailureNotEscalated ==
    [][\A i \in Subs :
         (exc[i].type = "engine" /\ pc[i] # "done" /\ pc'[i] = "done") =>
            resp'[i] = [code |-> 500,
                        detail |-> "Failed to generate 3D asset: "
                                     \o exc[i].msg]]_vars

\* C15: the record in the slot is well-formed: processing goes with progress
\* 5, complete with 100, error with 0, and model_file, color_video and
\* no_background_images are present only in a complete record.
C15_RecordWellFormed ==
    Slot # NoEntry =>
        LET r == Slot.rec
        IN  /\ r.status \in {"processing", "complete", "error"}
            /\ r.progress \in 0..100
            /\ r.status = "processing" => r.progress = 5
            /\ r.status = "complete" => r.progress = 100
            /\ r.status = "error" => r.progress = 0
            /\ (DOMAIN r \cap {"model_file", "color_video",
                               "no_background_images"} # {})
                 => r.status = "complete"

\* The slot holds an error record.
C15_Witness ==
    /\ Slot # NoEntry
    /\ Slot.rec.status = "error"
    /\ Slot.rec.progress = 0

\* C16 (as claimed): the record written before the engine call is exactly
\* status=processing, progress=5, message="Submitting job" followed by an
\* ellipsis, and it is written before the engine is invoked.
C16_ProcessingRecordAsClaimed ==
    \A i \in Subs :
        /\ (writer = i /\ Slot.rec.status = "processing") =>
             Slot.rec = [status |-> "processing", progress |-> 5,
                         message |-> "Submitting job..."]
        /\ engineCalls[i] > 0 =>
             (events[i][1] = "write_processing" /\ events[i][2] = "engine_call")

\* C16 (amended): the record written before the engine call is exactly
\* status=processing, progress=5, message="Submitting job to Trellis"
\* followed by an ellipsis, and it is written before the engine is invoked.
C16_ProcessingRecordWrittenFirst ==
    \A i \in Subs :
        /\ (writer = i /\ Slot.rec.status = "processing") =>
             Slot.rec = [status |-> "processing", progress |-> 5,
                         message |-> "Submitting job to Trellis..."]
        /\ engineCalls[i] > 0 =>
             (events[i][1] = "write_processing" /\ events[i][2] = "engine_call")

\* A submission's engine call is in flight and the slot holds its processing
\* record.
C16_Witness ==
    \E i \in Subs :
        /\ pc[i] = "engine"
        /\ writer = i
        /\ Slot.rec.status = "processing"

\* Submission 1 is the only one that has arrived.
Lone == \A j \in Subs : j > 1 => pc[j] = "idle"

\* C17 (as claimed): once the handler of a lone submission has returned, the
\* slot does not hold status=processing, also when status writes fail.
C17_NoProcessingAfterReturn ==
    (pc[1] = "done" /\ Lone) =>
        ~(SlotLive /\ Slot.rec.status = "processing")

\* C17 (amended): once the handler of a lone submission has returned after a
\* last status write that succeeded (the caller got the output or the
\* "Failed to generate 3D asset" error), the slot holds a complete or error
\* record; when the terminal writes all failed the processing record stays.
C17_NoProcessingAfterWrittenReturn ==
    (pc[1] = "done" /\ Lone /\ "error" \notin DOMAIN resp[1]) =>
        /\ Slot # NoEntry
        /\ Slot.rec.status \in {"complete", "error"}

\* A lone submission whose complete write failed has returned after its
\* error write succeeded.
C17_Witness ==
    /\ pc[1] = "done"
    /\ Lone
    /\ procWritten[1]
    /\ resp[1] = HttpError(StoreError)
    /\ Slot.rec.status = "error"

\* C18 (as claimed): while a lone submission is in flight (processing record
\* written, engine call not yet returned), every read of GET /trellis/status
\* returns status=processing.
C18_InFlightReadsProcessing ==
    (pc[1] \in {"written", "engine"} /\ Lone /\ statusResp # NoResp
       /\ storeUp) =>
        statusResp.body.status = "processing"

\* C18 (amended): while a lone submission is in flight, a read of
\* GET /trellis/status returns the processing record until 3600 seconds
\* after the processing write, and the idle default from then on.
C18_InFlightReadsProcessingUntilExpiry ==
    (pc[1] \in {"written", "engine"} /\ Lone /\ statusResp # NoResp
       /\ storeUp) =>
        statusResp.body =
            IF now - lastWriteAt < 3600
            THEN [status |-> "processing", progress |-> 5,
                  message |-> "Submitting job to Trellis..."]
            ELSE [status |-> "idle", progress |-> 0,
                  message |-> "No generation started"]

\* A read during a lone submission's engine call, 3600 seconds or more after
\* the processing write, returned the idle default.
C18_Witness ==
    /\ pc[1] = "engine"
    /\ Lone
    /\ statusResp # NoResp
    /\ storeUp
    /\ now - lastWriteAt >= 3600
    /\ statusResp.body.status = "idle"

\* C19: GET /trellis/status leaves the slot's record and its expiry as they
\* were, so that a read right after it returns the same.
C19_StatusReadOnly ==
    [][statusResp' # NoResp =>
         /\ store' = store
         /\ now' = now
         /\ get_generation_status(store', now')
              = get_generation_status(store, now)]_vars

\* A read returned a stored record part of whose retention time had passed.
C19_Witness ==
    /\ statusResp # NoResp
    /\ storeUp
    /\ SlotLive
    /\ now > lastWriteAt
    /\ statusResp.body = Slot.rec

\* C20: a step of POST /generate-3d leaves the status store as it was, and
\* the endpoint answers the engine's output, or HTTP 500 with detail exactly
\* the engine's reason.
C20_SecondaryEndpointLeavesStatusAlone ==
    [][mpc' # mpc =>
         /\ store' = store
         /\ mpc' = "done" =>
              \/ \E o \in Outputs : mresp' = [code |-> 200, body |-> o]
              \/ \E r \in Reasons : mresp' = [code |-> 500, detail |-> r]]_vars

\* POST /generate-3d failed with "rate limited" while the slot held a record.
C20_Witness ==
    /\ mpc = "done"
    /\ mresp = [code |-> 500, detail |-> "rate limited"]
    /\ SlotLive

====
